---- MODULE Spec2Model ----
(***************************************************************************)
(* Disease-state transition engine of covid19sim                           *)
(* (epidemiology/_refactored_symptom_helpers.py): the value types with     *)
(* their constructors and text format, the TransitionRuleSet with its      *)
(* registration operation add_transition_rule, and the sampling operation  *)
(* sample_next_health_state.                                               *)
(*                                                                         *)
(* Python values are modelled as follows.                                  *)
(*  - An optional field (None or a value) is a sequence of length 0 or 1.  *)
(*  - An argument whose run-time type the code inspects with isinstance is *)
(*    a record [t |-> <type name>, v |-> <value>].                         *)
(*  - A Python set is kept as the sequence of its elements in iteration    *)
(*    order: the order of a hash table depends on the hashes (those of     *)
(*    Enum members are string hashes, seeded per process) and on the       *)
(*    insertion history, so an insertion may land at any position.         *)
(*  - Floating point weights are exact rationals with integer numerators.  *)
(*  - A str is the sequence of its words and punctuation characters.       *)
(*  - `in` on an Enum class is evaluated as the interpreter at hand does:  *)
(*    by membership (up to Python 3.11) or by value (from Python 3.12).    *)
(***************************************************************************)
EXTENDS Integers, Sequences, FiniteSets, TLC

VARIABLES
    rule_set,   \* TransitionRuleSet.rule_set: key |-> rules in iteration order
    registered, \* the number of calls of add_transition_rule so far
    call,       \* the last operation called and its arguments
    outcome     \* what the last operation returned or raised

vars == <<rule_set, registered, call, outcome>>

---------------------------------------------------------------------------
(* Bounds of the model *)

\* the largest number of calls of add_transition_rule in a behaviour
MaxRegistrations == 2

\* the largest number of symptoms of a health state that is written as text
MaxSymptoms == 2

\* the largest length of a list of tokens passed to HealthState.make
MaxTokens == 3

---------------------------------------------------------------------------
(* Helpers on sequences *)

Range(s) == {s[i] : i \in DOMAIN s}

RECURSIVE SumSeq(_)
SumSeq(s) == IF s = <<>> THEN 0 ELSE s[1] + SumSeq(Tail(s))

Abs(x) == IF x < 0 THEN -x ELSE x

InsertAt(s, i, e) == SubSeq(s, 1, i - 1) \o <<e>> \o SubSeq(s, i, Len(s))

\* itertools.product(a, b): the pairs, the first component varying slowest
Product(a, b) ==
    [n \in 1..(Len(a) * Len(b)) |->
        <<a[((n - 1) \div Len(b)) + 1], b[((n - 1) % Len(b)) + 1]>>]

---------------------------------------------------------------------------
(* Optional values and typed arguments *)

None == <<>>
Some(v) == <<v>>

\* an instance v of one of the module's dataclasses
Obj(type, v) == [t |-> type, v |-> v]
\* a list
Iter(items) == [t |-> "Iterable", items |-> items]
\* a member of TransitionRuleSet.WildCards
WildCard(name) == [t |-> "WildCards", name |-> name]
NoneArg == [t |-> "NoneType"]
IsNone(a) == a.t = "NoneType"
\* isinstance(a, typing.Iterable): none of the dataclasses or Enum members
\* of the module define __iter__
IsIterable(a) == a.t = "Iterable"
IsWildCard(a, name) == a.t = "WildCards" /\ a.name = name

---------------------------------------------------------------------------
(* Vocabularies *)

Severity ==
    <<"UNDEFINED", "MILD", "MODERATE", "HEAVY", "SEVERE", "EXTREMELY_SEVERE">>

BaseSymptom ==
    <<"NO_SYMPTOMS", "FEVER", "CHILLS", "GASTRO", "DIARRHEA",
      "NAUSEA_VOMITTING", "FATIGUE", "UNUSUAL", "HARD_TIME_WAKING_UP",
      "HEADACHE", "CONFUSED", "LOST_CONSCIOUSNESS", "TROUBLE_BREATHING",
      "SNEEZING", "COUGH", "RUNNY_NOSE", "SORE_THROAT", "CHEST_PAIN",
      "LOSS_OF_TASTE", "ACHES">>

\* a member of a DiseaseContext enumeration: its class, name and int value
Context(enum, name, value) == [enum |-> enum, name |-> name, value |-> value]

CovidContext ==
    <<Context("CovidContext", "INCUBATION", 0),
      Context("CovidContext", "ONSET", 1),
      Context("CovidContext", "PLATEAU", 2),
      Context("CovidContext", "POST_PLATEAU_1", 3),
      Context("CovidContext", "POST_PLATEAU_2", 4)>>

AllergyContext == <<Context("AllergyContext", "ALLERGY", 0)>>

ColdContext ==
    <<Context("ColdContext", "COLD", 0),
      Context("ColdContext", "COLD_LAST_DAY", 1)>>

FluContext ==
    <<Context("FluContext", "FLU_FIRST_DAY", 0),
      Context("FluContext", "FLU", 1),
      Context("FluContext", "FLU_LAST_DAY", 2)>>

\* the members of Disease in declaration order, and the value of each
Disease == <<"COVID", "ALLERGY", "COLD", "FLU">>

DiseaseValue(disease) ==
    CASE disease = "COVID" -> CovidContext
      [] disease = "ALLERGY" -> AllergyContext
      [] disease = "COLD" -> ColdContext
      [] disease = "FLU" -> FluContext

---------------------------------------------------------------------------
(* Value types *)

Symptoms(severity, base_symptom) ==
    [severity |-> severity, base_symptom |-> base_symptom]

\* Symptoms.get_all_possible_symptoms: product(Severity, BaseSymptom)
get_all_possible_symptoms ==
    LET p == Product(Severity, BaseSymptom)
    IN  [n \in DOMAIN p |-> Symptoms(p[n][1], p[n][2])]

DiseasePhase(disease, context) == [disease |-> disease, context |-> context]

RECURSIVE PhasesFrom(_)
PhasesFrom(d) ==
    IF d > Len(Disease) THEN <<>>
    ELSE LET cs == DiseaseValue(Disease[d])
         IN  [n \in DOMAIN cs |-> DiseasePhase(Disease[d], cs[n])]
             \o PhasesFrom(d + 1)

\* DiseasePhase.get_all_possible_disease_phases
get_all_possible_disease_phases == PhasesFrom(1)

\* HealthState.__init__ given an iterable of Symptoms: frozenset(symptoms)
HealthState(symptoms, disease_phase) ==
    [symptoms |-> Range(symptoms), disease_phase |-> disease_phase]

TransitionRule(from_health_state, to_health_state, proba_score_value, proba_fn) ==
    [from_health_state |-> from_health_state,
     to_health_state |-> to_health_state,
     proba_score_value |-> proba_score_value,
     proba_fn |-> proba_fn,
     proba_default |-> 0]

---------------------------------------------------------------------------
(* TransitionRule.get_proba *)

\* a call of the rule's proba_fn with (rule, **proba_fn_kwargs); the one
\* weight function of the model reads the weight from the keyword context
CallProbaFn(fn, rule, proba_fn_kwargs) ==
    CASE fn = "weight_from_context" -> proba_fn_kwargs.w

\* as get_proba, had the fixed score been tested before the function
get_proba_ScoreFirst(rule, proba_fn_kwargs) ==
    IF rule.proba_score_value # None
    THEN rule.proba_score_value[1]
    ELSE IF rule.proba_fn # None
         THEN CallProbaFn(rule.proba_fn[1], rule, proba_fn_kwargs)
         ELSE rule.proba_default

\* lines 273-279
get_proba(rule, proba_fn_kwargs) ==
    IF rule.proba_fn # None
    THEN CallProbaFn(rule.proba_fn[1], rule, proba_fn_kwargs)
    ELSE IF rule.proba_score_value # None
         THEN rule.proba_score_value[1]
         ELSE rule.proba_default

---------------------------------------------------------------------------
(* TransitionRuleSet: the validators.  Each returns [err, val]: err is the *)
(* exception raised ("" when none), val the list returned.                 *)

Ok(val) == [err |-> "", val |-> val]
Raise(err) == [err |-> err, val |-> <<>>]

\* assert all([isinstance(x, type) for x in items]), then return the list
AssertAllInstances(items, type) ==
    IF \A i \in DOMAIN items : items[i].t = type
    THEN Ok([i \in DOMAIN items |-> items[i].v])
    ELSE Raise("AssertionError")

AsObjs(type, vals) == [i \in DOMAIN vals |-> Obj(type, vals[i])]

_validate_disease_phase(disease_phase, allow_none) ==
    IF IsWildCard(disease_phase, "ALL_DISEASE_PHASES")
    THEN AssertAllInstances(
             AsObjs("DiseasePhase", get_all_possible_disease_phases),
             "DiseasePhase")
    ELSE IF IsIterable(disease_phase)
    THEN AssertAllInstances(disease_phase.items, "DiseasePhase")
    ELSE IF disease_phase.t = "DiseasePhase"
    THEN AssertAllInstances(<<disease_phase>>, "DiseasePhase")
    ELSE IF allow_none
    THEN IF IsNone(disease_phase)
         THEN Raise("TypeError")   \* line 466 iterates over None
         ELSE Raise("AssertionError")
    ELSE Raise("TypeError")

_validate_symptoms(symptoms) ==
    IF IsWildCard(symptoms, "ALL_SYMPTOMS")
    THEN AssertAllInstances(AsObjs("Symptoms", get_all_possible_symptoms),
                            "Symptoms")
    ELSE IF IsIterable(symptoms)
    THEN AssertAllInstances(symptoms.items, "Symptoms")
    ELSE IF symptoms.t = "Symptoms"
    THEN AssertAllInstances(<<symptoms>>, "Symptoms")
    ELSE Raise("TypeError")

_validate_health_state(health_state) ==
    IF IsIterable(health_state)
    THEN AssertAllInstances(health_state.items, "HealthState")
    ELSE IF health_state.t = "HealthState"
    THEN AssertAllInstances(<<health_state>>, "HealthState")
    ELSE Raise("TypeError")

_validate_transition_rule(transition_rule) ==
    IF IsIterable(transition_rule)
    THEN AssertAllInstances(transition_rule.items, "TransitionRule")
    ELSE IF transition_rule.t = "TransitionRule"
    THEN AssertAllInstances(<<transition_rule>>, "TransitionRule")
    ELSE Raise("TypeError")

---------------------------------------------------------------------------
(* DiseasePhase.__init__ and is_valid *)

\* `member in EnumClass` is EnumType.__contains__, which the interpreter
\* evaluates in one of two ways: up to Python 3.11 as isinstance(member, cls)
\* and member._name_ in cls._member_map_ ("member"); from Python 3.12 as
\* isinstance(value, cls) or value in cls._value2member_map_ ("value"), a
\* dict lookup in which an IntEnum member hashes and compares as its int
EnumContainsVersions == {"member", "value"}

\* cls is the sequence of the members of the class
EnumContains(cls, member, version) ==
    IF version = "member"
    THEN \E i \in DOMAIN cls :
             cls[i].enum = member.enum /\ cls[i].name = member.name
    ELSE \/ \E i \in DOMAIN cls : cls[i].enum = member.enum
         \/ \E i \in DOMAIN cls : cls[i].value = member.value

\* line 165: self.context in self.disease.value
is_valid(disease_phase, version) ==
    EnumContains(DiseaseValue(disease_phase.disease), disease_phase.context,
                 version)

\* lines 155-161: DiseasePhase(disease, context)
NewDiseasePhase(disease, context, version) ==
    IF is_valid(DiseasePhase(disease, context), version)
    THEN Ok(DiseasePhase(disease, context))
    ELSE Raise("AssertionError")

---------------------------------------------------------------------------
(* The text format.  A str is the sequence of its atoms: a word (a maximal  *)
(* run of letters and underscores, kept as its upper-cased letters and its  *)
(* capitalisation) or a single character of punctuation.                    *)

Word(letters, case) == [w |-> letters, case |-> case]
Punct(c) == [p |-> c]
Space == Punct(" ")

\* the name of an Enum member, as a str
Name(member_name) == <<Word(member_name, "upper")>>

\* a str written in lower case
Lower(letters) == <<Word(letters, "lower")>>

\* str.upper
upper(s) ==
    [i \in DOMAIN s |->
        IF "w" \in DOMAIN s[i] THEN Word(s[i].w, "upper") ELSE s[i]]

StartsWith(s, sep) == Len(s) >= Len(sep) /\ SubSeq(s, 1, Len(sep)) = sep

\* str.split(sep): the list of the parts between the occurrences of sep
RECURSIVE Split(_, _)
Split(s, sep) ==
    IF s = <<>> THEN << <<>> >>
    ELSE IF StartsWith(s, sep)
    THEN << <<>> >> \o Split(SubSeq(s, Len(sep) + 1, Len(s)), sep)
    ELSE LET rest == Split(Tail(s), sep)
         IN  << <<Head(s)>> \o rest[1] >> \o Tail(rest)

\* sep.join(parts)
RECURSIVE Join(_, _)
Join(parts, sep) ==
    IF parts = <<>> THEN <<>>
    ELSE IF Len(parts) = 1 THEN parts[1]
    ELSE parts[1] \o sep \o Join(Tail(parts), sep)

\* getattr(EnumClass, name, None) for the class with these member names
GetMember(names, name) ==
    IF \E i \in DOMAIN names : name = Name(names[i])
    THEN Some(CHOOSE n \in Range(names) : name = Name(n))
    ELSE None

\* lines 126-127
Symptoms_str(symptom) ==
    Name(symptom.severity) \o <<Space>> \o Name(symptom.base_symptom)

\* lines 175-176
DiseasePhase_str(disease_phase) ==
    Name(disease_phase.disease) \o <<Space, Punct("(")>>
        \o Name(disease_phase.context.name) \o <<Punct(")")>>

\* the orders a frozenset may be iterated in
IterationOrders(set) ==
    {o \in [1..Cardinality(set) -> set] : Range(o) = set}

\* lines 205-210, `order` being the iteration order of self.symptoms
HealthState_str(health_state, order) ==
    LET symptom_description ==
            IF Len(order) = 1 THEN Symptoms_str(order[1])
            ELSE Join([i \in DOMAIN order |-> Symptoms_str(order[i])],
                      <<Punct(","), Space>>)
    IN  symptom_description \o <<Space>> \o Lower("AT") \o <<Space>>
            \o DiseasePhase_str(health_state.disease_phase)

\* lines 129-137
Symptoms_make(severity, base_symptom) ==
    LET severity_ == GetMember(Severity, upper(severity))
        base_symptom_ == GetMember(BaseSymptom, upper(base_symptom))
    IN  IF severity_ = None THEN Raise("ValueError")
        ELSE IF base_symptom_ = None THEN Raise("ValueError")
        ELSE Ok(Symptoms(severity_[1], base_symptom_[1]))

\* lines 178-186
DiseasePhase_make(disease, context, version) ==
    LET disease_ == GetMember(Disease, upper(disease))
    IN  IF disease_ = None THEN Raise("ValueError")
        ELSE LET members == DiseaseValue(disease_[1])
                 context_ ==
                     GetMember([i \in DOMAIN members |-> members[i].name],
                               upper(context))
             IN  IF context_ = None THEN Raise("ValueError")
                 ELSE NewDiseasePhase(
                          disease_[1],
                          CHOOSE c \in Range(members) : c.name = context_[1],
                          version)

\* a str argument, as opposed to a list of str
Str(s) == [t |-> "str", s |-> s]

\* [x] if isinstance(x, str) else list(x)
AsList(x) == IF x.t = "str" THEN <<x.s>> ELSE x.items

\* list * k
Repeat(list, k) ==
    [i \in 1..(Len(list) * k) |-> list[((i - 1) % Len(list)) + 1]]

Max(a, b) == IF a >= b THEN a ELSE b
Min(a, b) == IF a <= b THEN a ELSE b

\* lines 219-240
HealthState_make(severity, base_symptom, disease, context, version) ==
    LET severity0 == AsList(severity)
        base_symptom0 == AsList(base_symptom)
        severity1 ==
            IF Len(severity0) = 1
            THEN Repeat(severity0, Max(Len(severity0), Len(base_symptom0)))
            ELSE severity0
        base_symptom1 ==
            IF Len(base_symptom0) = 1
            THEN Repeat(base_symptom0, Max(Len(severity1), Len(base_symptom0)))
            ELSE base_symptom0
        \* zip stops at the shorter list
        symptoms ==
            [i \in 1..Min(Len(severity1), Len(base_symptom1)) |->
                Symptoms_make(severity1[i], base_symptom1[i])]
        disease_phase == DiseasePhase_make(disease, context, version)
    IN  IF \E i \in DOMAIN symptoms : symptoms[i].err # ""
        THEN Raise("ValueError")
        ELSE IF disease_phase.err # "" THEN disease_phase
        ELSE Ok(HealthState([i \in DOMAIN symptoms |-> symptoms[i].val],
                            disease_phase.val))

\* lines 242-257
HealthState_parse(desc, version) ==
    LET parts == Split(desc, <<Space>> \o Lower("AT") \o <<Space>>)
    IN  IF Len(parts) # 2 THEN Raise("ValueError")
        ELSE LET all_symptom_desc == Split(parts[1], <<Punct(","), Space>>)
                 symptom_components ==
                     [i \in DOMAIN all_symptom_desc |->
                         Split(all_symptom_desc[i], <<Space>>)]
                 parsed_symptom_descs ==
                     [i \in DOMAIN symptom_components |->
                         IF Len(symptom_components[i]) = 2
                         THEN symptom_components[i]
                         ELSE <<Lower("UNDEFINED"), symptom_components[i][1]>>]
                 disease_desc == Split(parts[2], <<Space>>)
             IN  IF \E i \in DOMAIN symptom_components :
                        Len(symptom_components[i]) \notin {1, 2}
                 THEN Raise("ValueError")
                 ELSE IF Len(disease_desc) # 2 THEN Raise("ValueError")
                 ELSE HealthState_make(
                          Iter([i \in DOMAIN parsed_symptom_descs |->
                                   parsed_symptom_descs[i][1]]),
                          Iter([i \in DOMAIN parsed_symptom_descs |->
                                   parsed_symptom_descs[i][2]]),
                          disease_desc[1], disease_desc[2], version)

---------------------------------------------------------------------------
(* TransitionRuleSet.add_transition_rule: the rules a call resolves to *)

\* [HealthState(symptoms=symptoms, disease_phase=dp) for dp in phases]
HealthStatesAt(symptoms, phases) ==
    [i \in DOMAIN phases |-> HealthState(symptoms, phases[i])]

\* lines 337-362; `at` is the validated at_disease_phase
FromHealthStates(a, at) ==
    IF IsNone(a.from_health_state)
    THEN IF IsNone(a.from_symptoms) THEN Raise("AssertionError")
         ELSE LET from_symptoms == _validate_symptoms(a.from_symptoms)
                  from_disease_phase ==
                      IF IsNone(a.from_disease_phase)
                      THEN IF IsNone(at) THEN Raise("AssertionError")
                           ELSE Ok(AssertAllInstances(at.items, "DiseasePhase").val)
                      ELSE _validate_disease_phase(a.from_disease_phase, FALSE)
              IN  IF from_symptoms.err # "" THEN from_symptoms
                  ELSE IF from_disease_phase.err # "" THEN from_disease_phase
                  ELSE Ok(HealthStatesAt(from_symptoms.val,
                                         from_disease_phase.val))
    ELSE _validate_health_state(a.from_health_state)

\* lines 365-388: with to_disease_phase None nothing is assigned to it and
\* the comprehension iterates over None; otherwise it is at_disease_phase
\* that is validated and used
ToHealthStates(a, at) ==
    IF IsNone(a.to_health_state)
    THEN IF IsNone(a.to_symptoms) THEN Raise("AssertionError")
         ELSE LET to_symptoms == _validate_symptoms(a.to_symptoms)
                  to_disease_phase ==
                      IF IsNone(a.to_disease_phase)
                      THEN IF IsNone(at) THEN Raise("AssertionError")
                           ELSE Raise("TypeError")
                      ELSE _validate_disease_phase(at, FALSE)
              IN  IF to_symptoms.err # "" THEN to_symptoms
                  ELSE IF to_disease_phase.err # "" THEN to_disease_phase
                  ELSE Ok(HealthStatesAt(to_symptoms.val,
                                         to_disease_phase.val))
    ELSE _validate_health_state(a.to_health_state)

\* as MakeTransitionRules, had the states been paired with zip
MakeTransitionRules_Zip(from_health_state, to_health_state, a) ==
    LET n == IF Len(from_health_state) < Len(to_health_state)
             THEN Len(from_health_state) ELSE Len(to_health_state)
    IN  [i \in 1..n |->
            TransitionRule(from_health_state[i], to_health_state[i],
                           a.proba_score_value, a.proba_fn)]

\* lines 392-402
MakeTransitionRules(from_health_state, to_health_state, a) ==
    LET p == Product(from_health_state, to_health_state)
    IN  [n \in DOMAIN p |->
            TransitionRule(p[n][1], p[n][2], a.proba_score_value, a.proba_fn)]

\* lines 330-335: at_disease_phase is validated when a side is to be built
\* from symptoms, and is then a list; otherwise it is left as passed
NeedsSharedPhase(a) ==
    IsNone(a.from_health_state) \/ IsNone(a.to_health_state)

SharedDiseasePhase(a) ==
    IF NeedsSharedPhase(a)
    THEN LET at == _validate_disease_phase(a.at_disease_phase, TRUE)
         IN  [err |-> at.err, val |-> Iter(AsObjs("DiseasePhase", at.val))]
    ELSE [err |-> "", val |-> a.at_disease_phase]

\* lines 328-405: the list `transition_rule` that is then registered
ResolveTransitionRules(a) ==
    IF IsNone(a.transition_rule)
    THEN LET at == SharedDiseasePhase(a)
             from == FromHealthStates(a, at.val)
             to == ToHealthStates(a, at.val)
         IN  IF at.err # "" THEN Raise(at.err)
             ELSE IF from.err # "" THEN from
             ELSE IF to.err # "" THEN to
             ELSE Ok(MakeTransitionRules(from.val, to.val, a))
    ELSE _validate_transition_rule(a.transition_rule)

---------------------------------------------------------------------------
(* TransitionRuleSet.add_rule *)

\* defaultdict(set).__getitem__ on rule_set: no rule under a missing key
RulesUnder(rs, key) == IF key \in DOMAIN rs THEN rs[key] ELSE <<>>

\* TransitionRule.__eq__ is the one @dataclass generates: all fields are
\* compared (only __hash__ is overridden, to hash (from, to))
RuleEq(r1, r2) == r1 = r2

\* as SetAdd, had a rule with the endpoints of a stored one taken its place
SetAdd_Replacing(s, e) ==
    IF \E i \in DOMAIN s :
           /\ s[i].from_health_state = e.from_health_state
           /\ s[i].to_health_state = e.to_health_state
    THEN {[i \in DOMAIN s |->
              IF /\ s[i].from_health_state = e.from_health_state
                 /\ s[i].to_health_state = e.to_health_state
              THEN e ELSE s[i]]}
    ELSE {InsertAt(s, i, e) : i \in 1..(Len(s) + 1)}

\* set.add: an element equal to a stored one leaves the set as it is, any
\* other takes a slot of the table, anywhere in the iteration order
SetAdd(s, e) ==
    IF \E i \in DOMAIN s : RuleEq(s[i], e)
    THEN {s}
    ELSE {InsertAt(s, i, e) : i \in 1..(Len(s) + 1)}

\* as RuleKey, had add_rule keyed the rule by its destination
RuleKey_Destination(transition_rule) == transition_rule.to_health_state

\* line 310: the key a rule is stored under
RuleKey(transition_rule) == transition_rule.from_health_state

\* the rule sets add_rule may leave
add_rule(rs, transition_rule) ==
    LET key == RuleKey(transition_rule)
    IN  {[k \in DOMAIN rs \cup {key} |-> IF k = key THEN s ELSE rs[k]] :
            s \in SetAdd(RulesUnder(rs, key), transition_rule)}

\* lines 407-408: add_rule for each rule of the list, in order
RECURSIVE AddRules(_, _)
AddRules(S, rules) ==
    IF rules = <<>> THEN S
    ELSE AddRules(UNION {add_rule(rs, Head(rules)) : rs \in S}, Tail(rules))

---------------------------------------------------------------------------
(* TransitionRuleSet.sample_next_health_state *)

\* a float that is the quotient of two integers; den = 0 gives the IEEE
\* values nan (0/0), inf and -inf
Quot(num, den) == [num |-> num, den |-> den]
IsNaN(q) == q.den = 0 /\ q.num = 0
IsNegative(q) ==
    \/ q.den = 0 /\ q.num < 0
    \/ q.den # 0 /\ q.num * q.den < 0

\* line 417
HasForwardRule(rs, current_health_state) ==
    current_health_state \in DOMAIN rs

\* as CandidateNextHealthStates, had the comprehension read the other end
\* of each rule
CandidateNextHealthStates_FromEnd(rules) ==
    [i \in DOMAIN rules |-> rules[i].from_health_state]

\* lines 424-432: the destinations and the weights, in iteration order
CandidateNextHealthStates(rules) ==
    [i \in DOMAIN rules |-> rules[i].to_health_state]

NextStateProbas(rules, proba_fn_kwargs) ==
    [i \in DOMAIN rules |-> get_proba(rules[i], proba_fn_kwargs)]

\* line 435: next_state_probas / next_state_probas.sum()
Normalize(weights) ==
    [i \in DOMAIN weights |-> Quot(weights[i], SumSeq(weights))]

\* numpy's choice checks p: a nan sum, then a negative entry, are errors
\* (the sum of the quotients is 1 up to rounding whenever it is no nan)
ChoiceRejects(p) ==
    \/ \E i \in DOMAIN p : IsNaN(p[i])
    \/ \E i \in DOMAIN p : IsNegative(p[i])

\* as CdfAtMost, had the search been made with side='left': cdf[i] < u
CdfAtMost_Strict(p, i, k, resolution) ==
    LET cum == SumSeq([j \in 1..i |-> p[j].num])
        den == p[1].den
    IN  IF den > 0 THEN cum * resolution < k * den
        ELSE (-cum) * resolution < k * (-den)

\* cdf[i] <= u for the uniform draw u = k / resolution in [0, 1), where
\* cdf = p.cumsum()
CdfAtMost(p, i, k, resolution) ==
    LET cum == SumSeq([j \in 1..i |-> p[j].num])
        den == p[1].den
    IN  IF den > 0 THEN cum * resolution <= k * den
        ELSE (-cum) * resolution <= k * (-den)

\* cdf.searchsorted(u, side='right'), as an index from 1
ChoiceIndex(p, k, resolution) ==
    Cardinality({i \in DOMAIN p : CdfAtMost(p, i, k, resolution)}) + 1

\* the grid the uniform draw is taken from: multiples of 1 / |sum of weights|
Resolution(rs, current_health_state, proba_fn_kwargs) ==
    LET total == SumSeq(NextStateProbas(RulesUnder(rs, current_health_state),
                                        proba_fn_kwargs))
    IN  IF total = 0 THEN 1 ELSE Abs(total)

NoHealthState == [symptoms |-> {}, disease_phase |-> "none"]

Returned(status, value) == [status |-> status, value |-> value]

\* the whole call, given the uniform draw k / resolution of rng
sample_next_health_state(rs, current_health_state, k, resolution, proba_fn_kwargs) ==
    IF ~HasForwardRule(rs, current_health_state)
    THEN Returned("NoRuleForState", NoHealthState)
    ELSE LET rules == RulesUnder(rs, current_health_state)
             p == Normalize(NextStateProbas(rules, proba_fn_kwargs))
         IN  IF rules = <<>>
             THEN Returned("ValueError", NoHealthState)  \* zip(*[]) unpacked
             ELSE IF ChoiceRejects(p)
             THEN Returned("ValueError", NoHealthState)
             ELSE Returned("ok",
                      CandidateNextHealthStates(rules)[
                          ChoiceIndex(p, k, resolution)])

---------------------------------------------------------------------------
(* The inputs of the model *)

CovidOnset == DiseasePhase("COVID", CovidContext[2])
CovidPlateau == DiseasePhase("COVID", CovidContext[3])

MildFeverSymptom == Symptoms("MILD", "FEVER")
MildCoughSymptom == Symptoms("MILD", "COUGH")
ModerateFeverSymptom == Symptoms("MODERATE", "FEVER")

\* the health states of the module's example (lines 524-534)
MildFever == HealthState(<<MildFeverSymptom>>, CovidOnset)
ModerateFever == HealthState(<<ModerateFeverSymptom>>, CovidOnset)
SevereFeverHeadache ==
    HealthState(<<Symptoms("SEVERE", "FEVER"),
                  Symptoms("UNDEFINED", "HEADACHE")>>, CovidOnset)

\* (proba_score_value, proba_fn) of a rule
WeightSources ==
    {<<None, None>>, <<Some(0), None>>, <<Some(1), None>>, <<Some(3), None>>,
     <<Some(-1), None>>, <<None, Some("weight_from_context")>>,
     <<Some(3), Some("weight_from_context")>>}

\* the keyword context of a sampling call
Contexts == {[w |-> 1], [w |-> 3]}

\* the states sampling is called with
SampledStates == {MildFever, ModerateFever, SevereFeverHeadache}

\* a value of a type the module does not know
NotAnObject == [t |-> "int", n |-> 7]

NoArgs ==
    [transition_rule |-> NoneArg,
     from_health_state |-> NoneArg, to_health_state |-> NoneArg,
     from_symptoms |-> NoneArg, to_symptoms |-> NoneArg,
     at_disease_phase |-> NoneArg,
     from_disease_phase |-> NoneArg, to_disease_phase |-> NoneArg,
     proba_score_value |-> None, proba_fn |-> None]

PrebuiltRules ==
    {TransitionRule(MildFever, to, ws[1], ws[2]) :
        to \in {ModerateFever, SevereFeverHeadache}, ws \in WeightSources}
    \cup {TransitionRule(ModerateFever, SevereFeverHeadache, Some(1), None)}

\* calls that pass transition_rule: a rule, a list of rules, or neither
PrebuiltCalls ==
    {[NoArgs EXCEPT !.transition_rule = tr] :
        tr \in {Obj("TransitionRule", r) : r \in PrebuiltRules}
               \cup {Iter(<<Obj("TransitionRule",
                               TransitionRule(MildFever, ModerateFever,
                                              Some(1), None)),
                           Obj("TransitionRule",
                               TransitionRule(MildFever, SevereFeverHeadache,
                                              Some(3), None))>>),
                     Iter(<<Obj("TransitionRule",
                               TransitionRule(ModerateFever, MildFever,
                                              Some(1), None)),
                           NotAnObject>>),
                     NotAnObject}}

DeclarativeArgs(from_health_state, to_health_state, from_symptoms, to_symptoms, at, from_disease_phase, to_disease_phase, weight) ==
    [NoArgs EXCEPT !.from_health_state = from_health_state,
                   !.to_health_state = to_health_state,
                   !.from_symptoms = from_symptoms,
                   !.to_symptoms = to_symptoms,
                   !.at_disease_phase = at,
                   !.from_disease_phase = from_disease_phase,
                   !.to_disease_phase = to_disease_phase,
                   !.proba_score_value = weight[1],
                   !.proba_fn = weight[2]]

Mild == Obj("HealthState", MildFever)
Moderate == Obj("HealthState", ModerateFever)
Severe == Obj("HealthState", SevereFeverHeadache)
MildS == Obj("Symptoms", MildFeverSymptom)
ModerateS == Obj("Symptoms", ModerateFeverSymptom)
Onset == Obj("DiseasePhase", CovidOnset)
Plateau == Obj("DiseasePhase", CovidPlateau)
OnsetAndPlateau == Iter(<<Onset, Plateau>>)

\* calls that pass both health states
HealthStateCalls ==
    {DeclarativeArgs(f, t, NoneArg, NoneArg, at, NoneArg, NoneArg,
                     <<Some(1), None>>) :
        f \in {Mild, Iter(<<Mild, Moderate>>), NotAnObject},
        t \in {Severe, Iter(<<Moderate, Severe>>),
               Iter(<<Severe, Severe>>), NotAnObject},
        at \in {NoneArg}}
    \cup {DeclarativeArgs(f, Severe, NoneArg, NoneArg, NoneArg, NoneArg,
                          NoneArg, <<Some(1), None>>) :
            f \in {Iter(<<Mild, NotAnObject>>), WildCard("ALL_HEALTH_STATES")}}
    \cup {DeclarativeArgs(Mild, Severe, NoneArg, NoneArg, NotAnObject,
                          NoneArg, NoneArg, <<Some(1), None>>)}

\* calls that give the from side by symptoms and the to side by a state:
\* (from_symptoms, at_disease_phase, from_disease_phase)
FromSymptomsCalls ==
    {DeclarativeArgs(NoneArg, Moderate, c[1], NoneArg, c[2], c[3], NoneArg,
                     <<Some(3), None>>) :
        c \in {<<MildS, Onset, NoneArg>>,
               <<WildCard("ALL_SYMPTOMS"), Onset, NoneArg>>,
               <<MildS, OnsetAndPlateau, NoneArg>>,
               <<MildS, WildCard("ALL_DISEASE_PHASES"), NoneArg>>,
               <<MildS, Onset, Plateau>>,
               <<MildS, NoneArg, Plateau>>,
               <<MildS, NoneArg, NoneArg>>,
               <<NoneArg, Onset, NoneArg>>,
               <<NotAnObject, Onset, NoneArg>>,
               <<WildCard("ALL_DISEASE_PHASES"), Onset, NoneArg>>,
               <<Iter(<<MildS, NotAnObject>>), Onset, NoneArg>>,
               <<MildS, NotAnObject, NoneArg>>,
               <<MildS, Onset, NotAnObject>>}}

\* calls that give the to side by symptoms:
\* (to_symptoms, at_disease_phase, to_disease_phase)
ToSymptomsCalls ==
    {DeclarativeArgs(f[1], NoneArg, f[2], c[1], c[2], NoneArg, c[3],
                     <<None, Some("weight_from_context")>>) :
        f \in {<<Mild, NoneArg>>, <<NoneArg, MildS>>},
        c \in {<<ModerateS, Onset, NoneArg>>,
               <<ModerateS, Onset, Plateau>>,
               <<ModerateS, OnsetAndPlateau, Plateau>>,
               <<ModerateS, Onset, NotAnObject>>,
               <<ModerateS, NoneArg, Plateau>>,
               <<NoneArg, Onset, Plateau>>,
               <<NotAnObject, Onset, Plateau>>}}

\* calls that build the rules from health states, symptoms and phases
DeclarativeCalls == HealthStateCalls \cup FromSymptomsCalls \cup ToSymptomsCalls

---------------------------------------------------------------------------
(* The state machine *)

\* TransitionRuleSet.__init__
Init ==
    /\ rule_set = <<>>
    /\ registered = 0
    /\ call = [op |-> "__init__"]
    /\ outcome = Returned("ok", NoHealthState)

\* a call of add_transition_rule; the rule set changes only when every
\* argument has been validated
AddTransitionRule(a) ==
    LET resolved == ResolveTransitionRules(a)
    IN  /\ registered < MaxRegistrations
        /\ registered' = registered + 1
        /\ call' = [op |-> "add_transition_rule", args |-> a]
        /\ IF resolved.err # ""
           THEN /\ outcome' = Returned(resolved.err, NoHealthState)
                /\ UNCHANGED rule_set
           ELSE /\ rule_set' \in AddRules({rule_set}, resolved.val)
                /\ outcome' = Returned("ok", NoHealthState)

\* as RuleSetAfterSampling, had the rules been read with
\* self.rule_set[current_health_state] before the membership test: the
\* defaultdict inserts a missing key with an empty set
RuleSetAfterSampling_Inserting(rs, current_health_state) ==
    [key \in DOMAIN rs \cup {current_health_state} |-> RulesUnder(rs, key)]

\* the rule set after sampling: membership is tested with `in`, which
\* inserts nothing into the defaultdict
RuleSetAfterSampling(rs, current_health_state) == rs

\* a call of sample_next_health_state with the uniform draw k / resolution
SampleNextHealthState(current_health_state, kwargs, k) ==
    /\ call' = [op |-> "sample_next_health_state",
                current_health_state |-> current_health_state,
                kwargs |-> kwargs, k |-> k]
    /\ outcome' = sample_next_health_state(
                      rule_set, current_health_state, k,
                      Resolution(rule_set, current_health_state, kwargs),
                      kwargs)
    /\ rule_set' = RuleSetAfterSampling(rule_set, current_health_state)
    /\ UNCHANGED registered

Register(calls) == \E a \in calls : AddTransitionRule(a)

Sample ==
    \E s \in SampledStates, kw \in Contexts :
        \E k \in 0..(Resolution(rule_set, s, kw) - 1) :
            SampleNextHealthState(s, kw, k)

\* registration of prebuilt rules, and sampling
Next ==
    \/ Register(PrebuiltCalls)
    \/ Sample

Spec == Init /\ [][Next]_vars

\* registration from health states, symptoms and phases
NextDeclarative == Register(DeclarativeCalls)

SpecDeclarative == Init /\ [][NextDeclarative]_vars

---------------------------------------------------------------------------
(* The value types: inputs and operations *)

\* every member of a DiseaseContext enumeration
AllContexts ==
    Range(CovidContext) \cup Range(AllergyContext) \cup Range(ColdContext)
        \cup Range(FluContext)

SymptomPool ==
    <<MildFeverSymptom, ModerateFeverSymptom, Symptoms("SEVERE", "FEVER"),
      Symptoms("UNDEFINED", "HEADACHE"), MildCoughSymptom>>

\* the non-empty sets of symptoms that are written as text
SymptomSets ==
    {S \in SUBSET Range(SymptomPool) :
        Cardinality(S) >= 1 /\ Cardinality(S) <= MaxSymptoms}

WrittenPhases ==
    {CovidOnset, DiseasePhase("COLD", ColdContext[2]),
     DiseasePhase("FLU", FluContext[2])}

\* the descriptions of the module's example (lines 526-537), one without a
\* severity, one without " at " and one with a clause of three tokens
Descriptions ==
    {Lower("MILD") \o <<Space>> \o Lower("FEVER") \o <<Space>> \o Lower("AT")
         \o <<Space>> \o Lower("COVID") \o <<Space>> \o Lower("ONSET"),
     Lower("SEVERE") \o <<Space>> \o Lower("FEVER") \o <<Punct(","), Space>>
         \o Lower("HEADACHE") \o <<Space>> \o Lower("AT") \o <<Space>>
         \o Lower("COVID") \o <<Space>> \o Lower("ONSET"),
     Lower("COUGH") \o <<Space>> \o Lower("AT") \o <<Space>> \o Lower("COVID")
         \o <<Space>> \o Lower("ONSET"),
     Lower("MILD") \o <<Space>> \o Lower("FEVER") \o <<Space>>
         \o Lower("COVID") \o <<Space>> \o Lower("ONSET"),
     Lower("VERY") \o <<Space>> \o Lower("MILD") \o <<Space>> \o Lower("FEVER")
         \o <<Space>> \o Lower("AT") \o <<Space>> \o Lower("COVID")
         \o <<Space>> \o Lower("ONSET")}

SeverityTokens ==
    <<Lower("MILD"), Name("MODERATE"), Lower("SEVERE"), Lower("HEAVY")>>

BaseSymptomTokens ==
    <<Lower("FEVER"), Lower("COUGH"), Name("HEADACHE"), Lower("CHILLS")>>

\* a str, the lists of up to MaxTokens of the tokens, and an unknown name
TokenArgs(tokens) ==
    {Str(tokens[1]), Str(Lower("BOGUS"))}
        \cup {Iter(SubSeq(tokens, 1, n)) :
                 n \in 0..Min(MaxTokens, Len(tokens))}

\* (disease, context) of HealthState.make
PhaseTokens ==
    {<<Lower("COVID"), Lower("ONSET")>>,
     <<Name("COLD"), Lower("COLD_LAST_DAY")>>,
     <<Lower("COVID"), Lower("COLD")>>,
     <<Lower("PLAGUE"), Lower("ONSET")>>}

\* what a call of a constructor or class method returned or raised
OutcomeOf(r) ==
    IF r.err = "" THEN Returned("ok", r.val) ELSE Returned(r.err, NoHealthState)

\* DiseasePhase(disease, context)
NewDiseasePhaseCall(disease, context, version) ==
    /\ call' = [op |-> "DiseasePhase", disease |-> disease,
                context |-> context, version |-> version]
    /\ outcome' = OutcomeOf(NewDiseasePhase(disease, context, version))
    /\ UNCHANGED <<rule_set, registered>>

\* HealthState.make(severity, base_symptom, disease, context)
HealthStateMake(severity, base_symptom, disease, context, version) ==
    /\ call' = [op |-> "HealthState.make", severity |-> severity,
                base_symptom |-> base_symptom, disease |-> disease,
                context |-> context, version |-> version]
    /\ outcome' = OutcomeOf(HealthState_make(severity, base_symptom, disease,
                                             context, version))
    /\ UNCHANGED <<rule_set, registered>>

\* HealthState.parse(desc); `of` is the health state desc is the text of,
\* if any
HealthStateParse(desc, of, version) ==
    /\ call' = [op |-> "HealthState.parse", desc |-> desc, of |-> of,
                version |-> version]
    /\ outcome' = OutcomeOf(HealthState_parse(desc, version))
    /\ UNCHANGED <<rule_set, registered>>

Construct ==
    \E disease \in Range(Disease), context \in AllContexts,
       version \in EnumContainsVersions :
        NewDiseasePhaseCall(disease, context, version)

Make ==
    \E severity \in TokenArgs(SeverityTokens),
       base_symptom \in TokenArgs(BaseSymptomTokens),
       phase \in PhaseTokens, version \in EnumContainsVersions :
        HealthStateMake(severity, base_symptom, phase[1], phase[2], version)

\* HealthState.parse(str(health_state))
ParseStr ==
    \E symptoms \in SymptomSets, disease_phase \in WrittenPhases,
       version \in EnumContainsVersions :
        \E order \in IterationOrders(symptoms) :
            HealthStateParse(
                HealthState_str(HealthState(order, disease_phase), order),
                Some(HealthState(order, disease_phase)), version)

Parse ==
    \E desc \in Descriptions, version \in EnumContainsVersions :
        HealthStateParse(desc, None, version)

NextValues ==
    \/ Construct
    \/ Make
    \/ ParseStr
    \/ Parse

SpecValues == Init /\ [][NextValues]_vars

---------------------------------------------------------------------------
(* Vocabulary of the properties *)

Sampled == call.op = "sample_next_health_state"
Registered == call.op = "add_transition_rule"

\* every rule the rule set stores, under whatever key
StoredRules(rs) == UNION {Range(rs[key]) : key \in DOMAIN rs}

\* the registered rules that leave a health state
OutgoingRules(rs, health_state) ==
    {r \in StoredRules(rs) : r.from_health_state = health_state}

\* the rules sampling reads for the last call, and their weights
CurrentRules == RulesUnder(rule_set, call.current_health_state)
CurrentWeights == NextStateProbas(CurrentRules, call.kwargs)
CurrentResolution ==
    Resolution(rule_set, call.current_health_state, call.kwargs)

\* the draws of the grid that select the rule at index i
DrawsSelecting(i) ==
    {k \in 0..(CurrentResolution - 1) :
        ChoiceIndex(Normalize(CurrentWeights), k, CurrentResolution) = i}

\* every order the rules of a set may be iterated in
Orders(rules) ==
    {o \in [DOMAIN rules -> Range(rules)] : Range(o) = Range(rules)}

---------------------------------------------------------------------------
(* Sampling *)

\* C1: every health state sample_next_health_state returns is the
\* to_health_state of a rule registered from the current health state.
C1_ReturnsRegisteredDestination ==
    (Sampled /\ outcome.status = "ok") =>
        \E r \in OutgoingRules(rule_set, call.current_health_state) :
            r.to_health_state = outcome.value

\* two rules are registered from one state, and sampling returned the
\* destination of the second
C1_Witness ==
    /\ Sampled
    /\ call.current_health_state = MildFever
    /\ {r.to_health_state : r \in OutgoingRules(rule_set, MildFever)}
           = {ModerateFever, SevereFeverHeadache}
    /\ Cardinality(OutgoingRules(rule_set, MildFever)) = 2
    /\ outcome = Returned("ok", SevereFeverHeadache)

\* C2: sampling fails with the no-rule error exactly when no registered
\* rule leaves the current health state, and returns a state only for a key
\* of the rule set.
C2_NoRuleForState ==
    Sampled =>
        /\ outcome.status = "NoRuleForState"
               <=> OutgoingRules(rule_set, call.current_health_state) = {}
        /\ outcome.status = "ok"
               => call.current_health_state \in DOMAIN rule_set

\* rules are registered, and a state none of them leaves was sampled
C2_Witness ==
    /\ Sampled
    /\ StoredRules(rule_set) # {}
    /\ OutgoingRules(rule_set, call.current_health_state) = {}
    /\ outcome.status = "NoRuleForState"

\* C3: with non-negative weights of positive sum, each outgoing rule is
\* drawn with probability weight / sum: the normalized values sum to 1, of
\* the |sum| equally likely draws exactly `weight` select the rule, and the
\* call returns the destination the draw selects.
C3_Normalization ==
    (/\ Sampled
     /\ call.current_health_state \in DOMAIN rule_set
     /\ \A i \in DOMAIN CurrentWeights : CurrentWeights[i] >= 0
     /\ SumSeq(CurrentWeights) > 0) =>
        LET p == Normalize(CurrentWeights)
        IN  /\ \A i \in DOMAIN p : p[i].den = SumSeq(CurrentWeights)
            /\ SumSeq([i \in DOMAIN p |-> p[i].num]) = p[1].den
            /\ \A i \in DOMAIN CurrentRules :
                   Cardinality(DrawsSelecting(i)) = CurrentWeights[i]
            /\ outcome.status = "ok"
            /\ \E i \in DOMAIN CurrentRules :
                   /\ call.k \in DrawsSelecting(i)
                   /\ outcome.value = CurrentRules[i].to_health_state

\* fixed weights 1 and 3 from one state: 1 draw of 4 selects the first
\* destination and 3 of 4 the second, which this call returned
C3_Witness ==
    /\ Sampled
    /\ call.current_health_state = MildFever
    /\ Len(CurrentRules) = 2
    /\ \E i, j \in DOMAIN CurrentRules :
           /\ CurrentRules[i] =
                  TransitionRule(MildFever, ModerateFever, Some(1), None)
           /\ CurrentRules[j] =
                  TransitionRule(MildFever, SevereFeverHeadache, Some(3), None)
           /\ Cardinality(DrawsSelecting(i)) = 1
           /\ Cardinality(DrawsSelecting(j)) = 3
    /\ CurrentResolution = 4
    /\ outcome = Returned("ok", SevereFeverHeadache)

\* C4: sampling returns no destination when the weights of the outgoing
\* rules sum to zero or when one of them is negative.
C4_DegenerateWeightsRejected ==
    (/\ Sampled
     /\ call.current_health_state \in DOMAIN rule_set
     /\ \/ SumSeq(CurrentWeights) = 0
        \/ \E i \in DOMAIN CurrentWeights : CurrentWeights[i] < 0) =>
        outcome.status # "ok"

\* C5: the destination sampling returns is the same for every rule set that
\* holds the same rules, whatever the order its sets iterate in, given the
\* same current state, context and draw.
C5_OrderIndependent ==
    (Sampled /\ call.current_health_state \in DOMAIN rule_set) =>
        \A o \in Orders(CurrentRules) :
            sample_next_health_state(
                [rule_set EXCEPT ![call.current_health_state] = o],
                call.current_health_state, call.k, CurrentResolution,
                call.kwargs) = outcome

\* C6: a call of sample_next_health_state, returning or failing, leaves the
\* rule set as it was: the same keys and the same rules under each.
C6_SamplingReadOnly ==
    [][call'.op = "sample_next_health_state" /\ registered' = registered
          => /\ DOMAIN rule_set' = DOMAIN rule_set
             /\ rule_set' = rule_set]_vars

\* a state without outgoing rules was sampled while rules are registered,
\* and it is no key of the rule set
C6_Witness ==
    /\ Sampled
    /\ outcome.status = "NoRuleForState"
    /\ DOMAIN rule_set # {}
    /\ call.current_health_state \notin DOMAIN rule_set
    /\ registered = MaxRegistrations

\* the weight of a rule: the result of its function, called with the rule
\* and the keyword context, else its fixed score, else the default 0.0
ExpectedWeight(rule, proba_fn_kwargs) ==
    IF rule.proba_fn # None
    THEN CallProbaFn(rule.proba_fn[1], rule, proba_fn_kwargs)
    ELSE IF rule.proba_score_value # None THEN rule.proba_score_value[1]
    ELSE 0

\* C16: sampling weighs every outgoing rule of the current state by its
\* function called with the rule and the call's context if it has one, else
\* by its fixed score if one is set (0 included), else by 0.0, and draws
\* with these weights.
C16_WeightResolution ==
    (Sampled /\ call.current_health_state \in DOMAIN rule_set) =>
        LET weights ==
                [i \in DOMAIN CurrentRules |->
                    ExpectedWeight(CurrentRules[i], call.kwargs)]
            p == Normalize(weights)
        IN  /\ CurrentWeights = weights
            /\ IF ChoiceRejects(p) THEN outcome.status = "ValueError"
               ELSE outcome =
                        Returned("ok",
                            CurrentRules[ChoiceIndex(p, call.k,
                                                     CurrentResolution)]
                                .to_health_state)

\* a rule with a function and a fixed score 3 weighs what the function
\* returns for the context (1), a rule with the fixed score 0 weighs 0, and
\* the destination of the first was returned
C16_Witness ==
    /\ Sampled
    /\ call.current_health_state = MildFever
    /\ call.kwargs.w = 1
    /\ Len(CurrentRules) = 2
    /\ \E i, j \in DOMAIN CurrentRules :
           /\ CurrentRules[i].proba_fn = Some("weight_from_context")
           /\ CurrentRules[i].proba_score_value = Some(3)
           /\ CurrentWeights[i] = 1
           /\ CurrentRules[j].proba_fn = None
           /\ CurrentRules[j].proba_score_value = Some(0)
           /\ CurrentWeights[j] = 0
           /\ outcome = Returned("ok", CurrentRules[i].to_health_state)

---------------------------------------------------------------------------
(* Registration *)

\* C7: under every key the rule set holds at most one rule per (from, to)
\* pair.
C7_OneRulePerPair ==
    \A r1, r2 \in StoredRules(rule_set) :
        (/\ r1.from_health_state = r2.from_health_state
         /\ r1.to_health_state = r2.to_health_state) => r1 = r2

\* the last call built its rules from health states, symptoms and phases
DeclarativeOk(c, o) ==
    /\ c.op = "add_transition_rule"
    /\ IsNone(c.args.transition_rule)
    /\ o.status = "ok"

\* the candidate health states a declarative call resolves its sides to
FromCandidates(a) == Range(FromHealthStates(a, SharedDiseasePhase(a).val).val)
ToCandidates(a) == Range(ToHealthStates(a, SharedDiseasePhase(a).val).val)

\* C8: a declarative registration that resolves `from` to F and `to` to T
\* adds exactly the rules (f, t) of F x T, each under key f and each with
\* the proba_score_value and proba_fn of the call.
C8_CrossProduct ==
    [][DeclarativeOk(call', outcome') /\ registered' = registered + 1 =>
          LET a == call'.args
              new == {TransitionRule(f, t, a.proba_score_value, a.proba_fn) :
                         f \in FromCandidates(a), t \in ToCandidates(a)}
          IN  /\ StoredRules(rule_set') = StoredRules(rule_set) \cup new
              /\ \A key \in DOMAIN rule_set' :
                     /\ \A i \in DOMAIN rule_set'[key] :
                            rule_set'[key][i].from_health_state = key
                     /\ Len(rule_set'[key]) =
                            Cardinality(Range(rule_set'[key]))
                     /\ Range(rule_set'[key]) =
                            Range(RulesUnder(rule_set, key))
                            \cup {r \in new : r.from_health_state = key}]_vars

\* two from candidates and two to candidates gave the four rules
C8_Witness ==
    /\ DeclarativeOk(call, outcome)
    /\ Cardinality(FromCandidates(call.args)) = 2
    /\ Cardinality(ToCandidates(call.args)) = 2
    /\ registered = 1
    /\ Cardinality(StoredRules(rule_set)) = 4
    /\ \A f \in FromCandidates(call.args) :
           Len(RulesUnder(rule_set, f)) = 2

\* C9: on an empty rule set, from_symptoms = ALL_SYMPTOMS with one disease
\* phase and one to_health_state registers |Severity| x |BaseSymptom| rules
\* with pairwise distinct from_health_state.
C9_WildcardExpands ==
    (/\ DeclarativeOk(call, outcome)
     /\ registered = 1
     /\ IsWildCard(call.args.from_symptoms, "ALL_SYMPTOMS")
     /\ IsNone(call.args.from_health_state)
     /\ call.args.at_disease_phase.t = "DiseasePhase"
     /\ IsNone(call.args.from_disease_phase)
     /\ call.args.to_health_state.t = "HealthState") =>
        /\ Cardinality(StoredRules(rule_set)) = Len(Severity) * Len(BaseSymptom)
        /\ Cardinality(DOMAIN rule_set) = Len(Severity) * Len(BaseSymptom)

\* C10: a declarative registration with from_symptoms, to_symptoms and only
\* the shared at_disease_phase succeeds, and both sides of its rules are at
\* the shared phase.
C10_SharedPhaseBothSides ==
    (/\ Registered
     /\ IsNone(call.args.transition_rule)
     /\ IsNone(call.args.from_health_state)
     /\ IsNone(call.args.to_health_state)
     /\ _validate_symptoms(call.args.from_symptoms).err = ""
     /\ call.args.to_symptoms.t \in {"Symptoms", "Iterable", "WildCards"}
     /\ _validate_symptoms(call.args.to_symptoms).err = ""
     /\ call.args.at_disease_phase.t \in {"DiseasePhase", "Iterable", "WildCards"}
     /\ _validate_disease_phase(call.args.at_disease_phase, FALSE).err = ""
     /\ IsNone(call.args.from_disease_phase)
     /\ IsNone(call.args.to_disease_phase)) =>
        LET phases == _validate_disease_phase(call.args.at_disease_phase,
                                              FALSE).val
            from == HealthStatesAt(
                        _validate_symptoms(call.args.from_symptoms).val, phases)
            to == HealthStatesAt(
                      _validate_symptoms(call.args.to_symptoms).val, phases)
        IN  /\ outcome.status = "ok"
            /\ \A f \in Range(from), t \in Range(to) :
                   \E r \in OutgoingRules(rule_set, f) : r.to_health_state = t

\* the disease phases a side-specific phase argument stands for
PhasesOf(disease_phase) ==
    Range(_validate_disease_phase(disease_phase, FALSE).val)

\* the argument is supplied and is a phase, a list of phases or the wildcard
GivesPhases(disease_phase) ==
    /\ ~IsNone(disease_phase)
    /\ _validate_disease_phase(disease_phase, FALSE).err = ""

\* C11: when a declarative registration on an empty rule set supplies both
\* at_disease_phase and a side-specific phase, the health states of that side
\* are at the side-specific phases: the from states at from_disease_phase and
\* the to states at to_disease_phase.
C11_SideSpecificPhaseWins ==
    (/\ DeclarativeOk(call, outcome)
     /\ registered = 1
     /\ GivesPhases(call.args.at_disease_phase)) =>
        LET a == call.args
        IN  /\ (IsNone(a.from_health_state) /\ GivesPhases(a.from_disease_phase))
                   => {r.from_health_state.disease_phase :
                          r \in StoredRules(rule_set)}
                      = PhasesOf(a.from_disease_phase)
            /\ (IsNone(a.to_health_state) /\ GivesPhases(a.to_disease_phase))
                   => {r.to_health_state.disease_phase :
                          r \in StoredRules(rule_set)}
                      = PhasesOf(a.to_disease_phase)

\* a supplied value that is neither an instance of the expected type, nor
\* the matching wildcard, nor an iterable of such instances
Incompatible(arg, type, wildcard) ==
    /\ ~IsNone(arg)
    /\ arg.t # type
    /\ ~IsWildCard(arg, wildcard)
    /\ ~(IsIterable(arg) /\ \A i \in DOMAIN arg.items : arg.items[i].t = type)

PassesIncompatible(a) ==
    \/ Incompatible(a.transition_rule, "TransitionRule", "")
    \/ Incompatible(a.from_health_state, "HealthState", "ALL_HEALTH_STATES")
    \/ Incompatible(a.to_health_state, "HealthState", "ALL_HEALTH_STATES")
    \/ Incompatible(a.from_symptoms, "Symptoms", "ALL_SYMPTOMS")
    \/ Incompatible(a.to_symptoms, "Symptoms", "ALL_SYMPTOMS")
    \/ Incompatible(a.at_disease_phase, "DiseasePhase", "ALL_DISEASE_PHASES")
    \/ Incompatible(a.from_disease_phase, "DiseasePhase", "ALL_DISEASE_PHASES")
    \/ Incompatible(a.to_disease_phase, "DiseasePhase", "ALL_DISEASE_PHASES")

\* C12: a call of add_transition_rule that passes, for any of its eight
\* specification arguments, a value of an incompatible type fails; none such
\* completes successfully.
C12_IncompatibleTypeRejected ==
    (Registered /\ PassesIncompatible(call.args)) => outcome.status # "ok"

\* C17: a call of add_transition_rule that fails leaves the rule set
\* exactly as it was, and any call leaves every stored rule in place under
\* its from_health_state.
C17_AllOrNothing ==
    [][(call'.op = "add_transition_rule" /\ registered' = registered + 1) =>
          /\ outcome'.status # "ok" => rule_set' = rule_set
          /\ \A key \in DOMAIN rule_set :
                 /\ key \in DOMAIN rule_set'
                 /\ Range(rule_set[key]) \subseteq Range(rule_set'[key])
          /\ \A key \in DOMAIN rule_set' :
                 \A r \in Range(rule_set'[key]) : r.from_health_state = key]_vars

\* after a successful registration, a call whose from_health_state is a list
\* with an element of a wrong type failed; the rule set is not empty and
\* holds no rule for the valid first element of the list
C17_Witness ==
    /\ Registered
    /\ registered = 2
    /\ outcome.status = "AssertionError"
    /\ IsIterable(call.args.from_health_state)
    /\ \E i \in DOMAIN call.args.from_health_state.items :
           call.args.from_health_state.items[i].t = "int"
    /\ StoredRules(rule_set) # {}
    /\ OutgoingRules(rule_set, MildFever) = {}

---------------------------------------------------------------------------
(* The value types *)

\* the phase is a member of the disease's own phase enumeration
OwnPhase(disease, context) ==
    \E i \in DOMAIN DiseaseValue(disease) : DiseaseValue(disease)[i] = context

\* C13: DiseasePhase(disease, phase) fails whenever the phase is no member
\* of the disease's own enumeration, a phase of another disease with the
\* same integer value included, and succeeds for every pair that
\* get_all_possible_disease_phases returns; these are the 11 pairs of a
\* disease with one of its own phases.
C13_OnlyOwnPhases ==
    /\ call.op = "DiseasePhase" =>
           (outcome.status = "ok" <=> OwnPhase(call.disease, call.context))
    /\ (/\ call.op = "DiseasePhase"
        /\ DiseasePhase(call.disease, call.context)
               \in Range(get_all_possible_disease_phases)) =>
           outcome = Returned("ok", DiseasePhase(call.disease, call.context))
    /\ Len(get_all_possible_disease_phases) = 11
    /\ Range(get_all_possible_disease_phases) =
           UNION {{DiseasePhase(d, c) :
                      c \in {x \in AllContexts : OwnPhase(d, x)}} :
                  d \in Range(Disease)}

\* C14: HealthState.parse(str(state)) returns a health state equal to state,
\* for every state with a non-empty set of symptoms and a valid phase.
C14_RoundTrip ==
    (call.op = "HealthState.parse" /\ call.of # None) =>
        /\ outcome.status = "ok"
        /\ outcome.value = call.of[1]

\* the symptoms of the pairing of a list of one token with another list
BroadcastSymptoms(severity, base_symptom) ==
    {Symptoms_make(severity[IF Len(severity) = 1 THEN 1 ELSE i],
                   base_symptom[IF Len(base_symptom) = 1 THEN 1 ELSE i]).val :
        i \in 1..Max(Len(severity), Len(base_symptom))}

\* C15: HealthState.make fails when the two lists differ in length and
\* neither has length 1; when one has length 1, the other is not empty and
\* the call succeeds, the result holds one symptom per element of the longer
\* list, the single token paired with each.
C15_MakeLengthMismatch ==
    call.op = "HealthState.make" =>
        LET severity == AsList(call.severity)
            base_symptom == AsList(call.base_symptom)
        IN  /\ (/\ Len(severity) # Len(base_symptom)
                /\ Len(severity) # 1
                /\ Len(base_symptom) # 1) => outcome.status # "ok"
            /\ (/\ outcome.status = "ok"
                /\ severity # <<>> /\ base_symptom # <<>>
                /\ Len(severity) = 1 \/ Len(base_symptom) = 1) =>
                   outcome.value.symptoms =
                       BroadcastSymptoms(severity, base_symptom)

====
